---- MODULE Spec2Model ----
(***************************************************************************)
(* RpcIpcAdapter (ironfish/src/rpc/adapters/ipcAdapter.ts): the adapter's  *)
(* lifecycle (start/stop), the local-socket/TCP listener (connect,         *)
(* disconnect, message handling, malformed requests) and the companion     *)
(* HTTP and WebSocket listeners, as a state machine; and the block chunk   *)
(* a snapshot stream carries (routes/chain/snapshotChain.test.ts).         *)
(***************************************************************************)
EXTENDS Integers, Sequences, FiniteSets, TLC

\* ------------------------------------------------------------------ bounds
NumConns == 1        \* local-socket connections that may ever connect
NumMsgs == 2         \* inbound local-socket messages that may ever arrive
MaxStream == 1       \* stream chunks one request may put on the wire
NumHttp == 1         \* HTTP requests that may ever arrive
MaxStartCalls == 2   \* calls of start()
NumAnyMsgs == 1      \* messages of any shape that may arrive under SpecMalformed
NumWs == 1           \* WebSocket connections that may ever arrive
HeaderSize == 2      \* bytes of a block header (H)
MaxTxs == 2          \* transactions of a block whose transactions differ

Conns == 1..NumConns
Msgs == 1..NumMsgs
\* The numeric values a mid or id field carries.
Nums == {1, 2}
Https == 1..NumHttp
Wss == 1..NumWs

\* ------------------------------------------------------- values and inputs
\* A field of an inbound message, by its JavaScript type.
Undefined == [t |-> "undefined", v |-> 0]
NonNumber == [t |-> "string", v |-> 0]
Number(n) == [t |-> "number", v |-> n]
FieldVals == {Undefined, NonNumber} \cup {Number(n) : n \in Nums}
TypeVals == {"undefined", "empty", "route"}

\* A message that is not an object (a string, null, ...).
NonObject == [obj |-> FALSE, mid |-> Undefined, type |-> "undefined", id |-> Undefined]
Payloads ==
  {NonObject} \cup
  {[obj |-> TRUE, mid |-> a, type |-> b, id |-> c] :
     a \in FieldVals, b \in TypeVals, c \in FieldVals}

\* Structured errors a route may throw (ResponseError: status, code).
ErrStatuses == {400, 404}
ErrCodes == {"validation"}
Methods == {"GET", "POST"}

Value(x) == [tag |-> "value", code |-> "", message |-> x]
\* The k-th chunk a route handler gives to request.stream().
Chunk(k) == [tag |-> "value", code |-> "", message |-> "chunk", seq |-> k]
NoError == [kind |-> "none", status |-> 0, code |-> ""]
ResponseError(s, c) == [kind |-> "ResponseError", status |-> s, code |-> c]
OtherError == [kind |-> "Error", status |-> 0, code |-> ""]
Returned == [kind |-> "returned", status |-> 0, code |-> ""]
ResponseErrors == {ResponseError(s, c) : s \in ErrStatuses, c \in ErrCodes}

\* What a WebSocket or an HTTP response carries: JSON.stringify({status, data})
\* or JSON.stringify(data).
Envelope(status, data) == [envelope |-> TRUE, status |-> status, data |-> data]
Raw(data) == [envelope |-> FALSE, status |-> 0, data |-> data]

\* The route a WebSocket URL names, as the sequence of its pieces.
StreamSuffix == <<"Stream">>
WsRoutes == {<<>>, <<"getBlock">>, <<"Stream">>, <<"snapshotChain", "Stream">>,
             <<"Stream", "Info">>, <<"on", "stream">>}

\* No block: the header and the transactions of a block are byte sequences.
NoBlock == [header |-> <<>>, transactions |-> <<>>]

\* The byte values the model draws: 0 and the varint prefix 0xfd.
ByteVals == {0, 253}
\* n copies of x.
Repeat(x, n) == [i \in 1..n |-> x]
\* The lengths of a transaction, on both sides of the one-byte varint.
TxLens == {0, 1, 253, 300}
Transactions == {Repeat(v, n) : v \in ByteVals, n \in TxLens}
\* The transaction lists: up to MaxTxs transactions of any kind, or a long
\* run of one short transaction (its count needs the three-byte varint).
TxLists ==
  UNION {[1..n -> Transactions] : n \in 0..MaxTxs} \cup
  {Repeat(Repeat(v, n), 253) : v \in ByteVals, n \in {0, 1}}
Blocks ==
  {[header |-> h, transactions |-> t] : h \in [1..HeaderSize -> ByteVals], t \in TxLists}

\* A well-formed Request: {mid, type, data}.
Requests == {[obj |-> TRUE, mid |-> Number(n), type |-> "route", id |-> Undefined] : n \in Nums}

VARIABLES
  mode,           \* connection.mode: "ipc" | "tcp"
  router,         \* this.router # null
  started,        \* this.started
  startPc,        \* the first start() call: "idle", "importing", "starting", "served", "failed"
  startResult,    \* its promise: "none", "resolved", "rejected"
  startCalls,     \* calls of start() so far
  ipc,            \* this.ipc # null
  server,         \* this.server # null
  httpServer,     \* this.httpServer # null
  wsServer,       \* this.wsServer # null
  meterStarts,    \* calls of inboundTraffic.start() / outboundTraffic.start()
  metersRunning,  \* both meters running
  serversCreated, \* transports created (new IPC(), http.createServer)
  handlerRegs,    \* registrations of the connect/disconnect/message handlers
  bindLog,        \* order of httpServer.listen and ipc.server.start
  ipcState,       \* the local-socket/TCP server: "down", "starting", "up", "stopped"
  httpListening,  \* the HTTP server accepts requests
  stopPc,         \* stop(): "idle", "waiting", "resolved"
  stopWait,       \* sockets whose close event stop() still awaits
  sock,           \* per connection: "none", "open", "destroyed", "closed"
  pending,        \* this.pending: connection id -> requests
  pc,             \* per message: position of onMessage
  mconn,          \* per message: the socket it arrived on
  mdata,          \* per message: the data received
  closed,         \* per message: its RpcRequest is closed
  outcome,        \* per message: what router.route threw (or returned)
  out,            \* per message: what onMessage and its request emitted, in order
  cancelled,      \* requests closed by onDisconnect
  logged,         \* errors given to logger.error
  uncaught,       \* errors that left a handler uncaught
  hpc,            \* per HTTP request: position of the request handler
  hclosed,        \* per HTTP request: its Request is closed
  hres,           \* per HTTP request: "none", "open", "ended"
  hwrites,        \* per HTTP request: writes to the response, in order
  houtcome,       \* per HTTP request: what router.route threw (or returned)
  wpc,            \* per WebSocket: position of the connection handler
  wroute,         \* per WebSocket: the route its URL names
  wsk,            \* per WebSocket: "none", "open", "closing", "closed"
  wclosed,        \* per WebSocket: its Request is closed
  wsent,          \* per WebSocket: the messages sent on it, in order
  woutcome,       \* per WebSocket: what router.route threw (or returned)
  bpc,            \* the block chunk: "idle", "written", "read"
  block,          \* the block given to writeBlock
  declared,       \* getBlockSize(block), the size of the buffer allocated
  buffer,         \* the bytes writeBlock wrote
  decoded,        \* the block readBlock returned
  consumed        \* the bytes readBlock read

lifeVars == <<mode, router, started, startPc, startResult, startCalls, ipc, server,
              httpServer, wsServer, meterStarts, metersRunning, serversCreated,
              handlerRegs, bindLog, ipcState, httpListening, stopPc, stopWait>>
startVars == <<started, startPc, startResult, ipc, server, httpServer, wsServer,
               meterStarts, serversCreated, handlerRegs, bindLog>>
msgVars == <<pc, mconn, mdata, closed, outcome, out, cancelled, logged>>
httpVars == <<hpc, hclosed, hres, hwrites, houtcome>>
wsVars == <<wpc, wroute, wsk, wclosed, wsent, woutcome>>
blockVars == <<bpc, block, declared, buffer, decoded, consumed>>
vars == <<lifeVars, sock, pending, msgVars, uncaught, httpVars, wsVars, blockVars>>

Init ==
  /\ mode \in {"ipc", "tcp"}
  /\ router = FALSE
  /\ started = FALSE
  /\ startPc = "idle"
  /\ startResult = "none"
  /\ startCalls = 0
  /\ ipc = FALSE
  /\ server = FALSE
  /\ httpServer = FALSE
  /\ wsServer = FALSE
  /\ meterStarts = 0
  /\ metersRunning = FALSE
  /\ serversCreated = 0
  /\ handlerRegs = 0
  /\ bindLog = <<>>
  /\ ipcState = "down"
  /\ httpListening = FALSE
  /\ stopPc = "idle"
  /\ stopWait = {}
  /\ sock = [c \in Conns |-> "none"]
  /\ pending = [c \in {} |-> <<>>]
  /\ pc = [m \in Msgs |-> "unused"]
  /\ mconn = [m \in Msgs |-> 0]
  /\ mdata = [m \in Msgs |-> NonObject]
  /\ closed = [m \in Msgs |-> FALSE]
  /\ outcome = [m \in Msgs |-> NoError]
  /\ out = [m \in Msgs |-> <<>>]
  /\ cancelled = {}
  /\ logged = {}
  /\ uncaught = {}
  /\ hpc = [h \in Https |-> "unused"]
  /\ hclosed = [h \in Https |-> FALSE]
  /\ hres = [h \in Https |-> "none"]
  /\ hwrites = [h \in Https |-> <<>>]
  /\ houtcome = [h \in Https |-> NoError]
  /\ wpc = [w \in Wss |-> "unused"]
  /\ wroute = [w \in Wss |-> <<>>]
  /\ wsk = [w \in Wss |-> "none"]
  /\ wclosed = [w \in Wss |-> FALSE]
  /\ wsent = [w \in Wss |-> <<>>]
  /\ woutcome = [w \in Wss |-> NoError]
  /\ bpc = "idle"
  /\ block = NoBlock
  /\ declared = 0
  /\ buffer = <<>>
  /\ decoded = NoBlock
  /\ consumed = 0

\* ---------------------------------------------------------------- attach()
attach ==
  /\ ~router
  /\ router' = TRUE
  /\ UNCHANGED <<mode, startVars, startCalls, metersRunning, ipcState,
                 httpListening, stopPc, stopWait, sock, pending, msgVars, uncaught,
                 httpVars, wsVars,
                 blockVars>>

\* ----------------------------------------------------------------- start()
\* start() without its guard.
AlreadyStartedNever == FALSE

\* if (this.started) return
AlreadyStarted == started

\* start() up to its first await: the started guard and the meters.
start ==
  /\ startCalls < MaxStartCalls
  /\ startCalls' = startCalls + 1
  /\ IF AlreadyStarted
       THEN UNCHANGED <<started, startPc, meterStarts, metersRunning>>
       ELSE /\ started' = TRUE
            /\ meterStarts' = meterStarts + 1
            /\ metersRunning' = TRUE
            /\ startPc' = "importing"
  /\ UNCHANGED <<mode, router, startResult, ipc, server, httpServer, wsServer,
                 serversCreated, handlerRegs, bindLog, ipcState, httpListening,
                 stopPc, stopWait, sock, pending, msgVars, uncaught, httpVars, wsVars,
                 blockVars>>

\* The calls that bring a listener up, in the order start() makes them.
BindOrder(md) ==
  IF md = "tcp" THEN <<"httpServer.listen", "ipc.server.start">>
                ELSE <<"ipc.server.start">>

\* start() after the import: new IPC(), serve / serveNet, the HTTP and
\* WebSocket servers in tcp mode, httpServer.listen, ipc.server.start.
startServe ==
  /\ startPc = "importing"
  /\ startPc' = "starting"
  /\ ipc' = TRUE
  /\ serversCreated' = serversCreated + 1
  /\ httpServer' = (httpServer \/ mode = "tcp")
  /\ wsServer' = (wsServer \/ mode = "tcp")
  /\ httpListening' = (mode = "tcp")
  /\ bindLog' = bindLog \o BindOrder(mode)
  /\ ipcState' = "starting"
  /\ UNCHANGED <<mode, router, started, startResult, startCalls, server, meterStarts,
                 metersRunning, handlerRegs, stopPc, stopWait, sock, pending,
                 msgVars, uncaught, httpVars, wsVars,
                 blockVars>>

\* The transport's start event: the three handlers are registered and the
\* promise of start() resolves.
onServed ==
  /\ startPc = "starting"
  /\ ipcState = "starting"
  /\ startPc' = "served"
  /\ ipcState' = "up"
  /\ server' = TRUE
  /\ handlerRegs' = handlerRegs + 1
  /\ startResult' = IF startResult = "none" THEN "resolved" ELSE startResult
  /\ UNCHANGED <<mode, router, started, startCalls, ipc, httpServer, wsServer,
                 meterStarts, metersRunning, serversCreated, bindLog, httpListening,
                 stopPc, stopWait, sock, pending, msgVars, uncaught, httpVars, wsVars,
                 blockVars>>

\* An error event of the local-socket server (while it starts) or of the HTTP
\* server: the promise of start() is rejected.
onError(src) ==
  /\ \/ /\ src = "ipc"
        /\ startPc = "starting"
        /\ ipcState = "starting"
        /\ startPc' = "failed"
        /\ ipcState' = "down"
        /\ UNCHANGED httpListening
     \/ /\ src = "http"
        /\ startPc \in {"starting", "served"}
        /\ httpListening
        /\ httpListening' = FALSE
        /\ UNCHANGED <<startPc, ipcState>>
  /\ startResult' = IF startResult = "none" THEN "rejected" ELSE startResult
  /\ UNCHANGED <<mode, router, started, startCalls, ipc, server, httpServer,
                 wsServer, meterStarts, metersRunning, serversCreated, handlerRegs,
                 bindLog, stopPc, stopWait, sock, pending, msgVars, uncaught,
                 httpVars, wsVars,
                 blockVars>>

\* ------------------------------------------------------------------ stop()
\* ipc.server.sockets: the sockets whose close event has not fired yet.
ServerSockets == {c \in Conns : sock[c] \in {"open", "destroyed"}}

\* waitForAllToDisconnect() awaiting every socket that ever connected.
waitForAllToDisconnectEver == IF ~server THEN {} ELSE {c \in Conns : sock[c] # "none"}

\* The sockets waitForAllToDisconnect() awaits.
waitForAllToDisconnect == IF ~server THEN {} ELSE ServerSockets

\* stop() with this.started = false.
StartedAfterStopReset == FALSE

\* this.started after stop(): stop() does not assign it.
StartedAfterStop == started

stop ==
  /\ stopPc = "idle"
  /\ metersRunning' = FALSE
  /\ started' = StartedAfterStop
  /\ IF started /\ ipc
       THEN /\ ipcState' = "stopped"
            /\ httpListening' = FALSE
            /\ sock' = [c \in Conns |-> IF sock[c] = "open" THEN "destroyed" ELSE sock[c]]
            /\ stopWait' = waitForAllToDisconnect
            /\ stopPc' = IF waitForAllToDisconnect = {} THEN "resolved" ELSE "waiting"
       ELSE /\ stopPc' = "resolved"
            /\ UNCHANGED <<ipcState, httpListening, sock, stopWait>>
  /\ UNCHANGED <<mode, router, startPc, startResult, ipc, server, httpServer,
                 wsServer, meterStarts, serversCreated, handlerRegs, bindLog,
                 startCalls, pending, msgVars, uncaught, httpVars, wsVars,
                 blockVars>>

\* ------------------------------------------------- connect and disconnect
\* A client connects; onConnect gives the socket its id.
onConnect(c) ==
  /\ ipcState = "up"
  /\ sock[c] = "none"
  /\ \A k \in Conns : k < c => sock[k] # "none"
  /\ sock' = [sock EXCEPT ![c] = "open"]
  /\ UNCHANGED <<lifeVars, pending, msgVars, uncaught, httpVars, wsVars,
                 blockVars>>

InSeq(x, s) == \E i \in 1..Len(s) : s[i] = x

\* The pending requests of socket c, closed by onDisconnect.
PendingOf(c) == IF c \in DOMAIN pending THEN {m \in Msgs : InSeq(m, pending[c])} ELSE {}

\* this.pending.delete(socketId)
PendingDelete(c) == [k \in DOMAIN pending \ {c} |-> pending[k]]

\* The close event of a socket (the client went away, or stop() destroyed
\* it): onDisconnect runs, then the close listeners of stop().
onDisconnect(c) ==
  /\ sock[c] \in {"open", "destroyed"}
  /\ sock' = [sock EXCEPT ![c] = "closed"]
  /\ closed' = [m \in Msgs |-> closed[m] \/ m \in PendingOf(c)]
  /\ cancelled' = cancelled \cup PendingOf(c)
  /\ pending' = PendingDelete(c)
  /\ stopWait' = stopWait \ {c}
  /\ stopPc' = IF stopPc = "waiting" /\ stopWait \ {c} = {} THEN "resolved" ELSE stopPc
  /\ UNCHANGED <<mode, router, startVars, startCalls, metersRunning, ipcState,
                 httpListening, pc, mconn, mdata, outcome, out, logged, uncaught,
                 httpVars, wsVars,
                 blockVars>>

\* ----------------------------------------------------------- wire messages
ResponseMsg(id, status, data) ==
  [kind |-> "message", id |-> id, status |-> status, data |-> data]
StreamMsg(id, data) == [kind |-> "stream", id |-> id, status |-> 0, data |-> data]
MalformedEvent(data) == [kind |-> "malformedRequest", id |-> 0, status |-> 0, data |-> data]

\* server.emit(socket, 'message', {id, status, data}) for message m
emitResponse(o, m, id, status, data) ==
  [o EXCEPT ![m] = Append(@, ResponseMsg(id, status, data))]

\* server.emit(socket, 'stream', {id, data}) for message m
emitStream(o, m, id, data) == [o EXCEPT ![m] = Append(@, StreamMsg(id, data))]

renderError(e, message) ==
  [tag |-> "error",
   code |-> IF e.kind = "ResponseError" THEN e.code ELSE "ERROR",
   message |-> message]

\* IpcRequestSchema: mid a number, type a non-empty string, both required.
IpcRequestValid(d) == d.obj /\ d.mid.t = "number" /\ d.type = "route"

\* The test of handleMalformedRequest for a targeted answer.
HasNumericId(d) == d.obj /\ d.id.t = "number"

\* handleMalformedRequest without the return after its targeted answer.
handleMalformedRequestNoReturn(o, m) ==
  LET e == renderError(OtherError, "Malformed request rejected")
      t == IF HasNumericId(mdata[m]) THEN emitResponse(o, m, mdata[m].id.v, 500, e) ELSE o
  IN  [t EXCEPT ![m] = Append(@, MalformedEvent(e))]

handleMalformedRequest(o, m) ==
  IF HasNumericId(mdata[m])
    THEN emitResponse(o, m, mdata[m].id.v, 500, renderError(OtherError, "Malformed request rejected"))
    ELSE [o EXCEPT ![m] = Append(@, MalformedEvent(renderError(OtherError, "Malformed request rejected")))]

\* ---------------------------------------------------------------- onMessage
\* The request of message m exists (new RpcRequest was reached).
HasContext(m) == pc[m] \in {"routing", "done"}

\* The client's side of the protocol: a mid is not reused on a connection
\* while the request that carries it is still in flight.
MidInUse(c, n) ==
  \E k \in Msgs :
    /\ mconn[k] = c
    /\ IpcRequestValid(mdata[k])
    /\ mdata[k].mid.v = n
    /\ pc[k] = "validating" \/ (HasContext(k) /\ ~closed[k])

\* A message arrives on socket c: onMessage runs up to the await of
\* YupUtils.tryValidate (every connected socket has its id from onConnect).
onMessage(m, c, d) ==
  /\ pc[m] = "unused"
  /\ \A k \in Msgs : k < m => pc[k] # "unused"
  /\ sock[c] = "open"
  /\ IpcRequestValid(d) => ~MidInUse(c, d.mid.v)
  /\ pc' = [pc EXCEPT ![m] = "validating"]
  /\ mconn' = [mconn EXCEPT ![m] = c]
  /\ mdata' = [mdata EXCEPT ![m] = d]
  /\ UNCHANGED <<lifeVars, sock, pending, closed, outcome, out, cancelled, logged,
                 uncaught, httpVars, wsVars,
                 blockVars>>

\* pending.get / pending.set / pending.push
PendingPush(c, m) ==
  [k \in DOMAIN pending \cup {c} |->
     IF k = c THEN Append(IF c \in DOMAIN pending THEN pending[c] ELSE <<>>, m)
              ELSE pending[k]]

\* onMessage after the validation: a malformed message is answered; a valid
\* one gets its RpcRequest, which is registered, and the router is called.
onMessageValidated(m) ==
  /\ pc[m] = "validating"
  /\ IF ~IpcRequestValid(mdata[m])
       THEN /\ out' = handleMalformedRequest(out, m)
            /\ pc' = [pc EXCEPT ![m] = "malformed"]
            /\ UNCHANGED <<pending, logged>>
       ELSE IF ~router
         THEN /\ pc' = [pc EXCEPT ![m] = "asserted"]
              /\ logged' = logged \cup {m}
              /\ UNCHANGED <<pending, out>>
         ELSE /\ pending' = PendingPush(mconn[m], m)
              /\ pc' = [pc EXCEPT ![m] = "routing"]
              /\ UNCHANGED <<out, logged>>
  /\ UNCHANGED <<lifeVars, sock, mconn, mdata, closed, outcome, cancelled, uncaught,
                 httpVars, wsVars,
                 blockVars>>

\* RpcRequest: a closed request calls neither of its callbacks.
RequestOpen(m) == ~closed[m]

\* The route handler calls request.end(): the request closes and its onEnd
\* callback emits the Response.
requestEnd(m) ==
  /\ HasContext(m)
  /\ IF RequestOpen(m)
       THEN /\ closed' = [closed EXCEPT ![m] = TRUE]
            /\ out' = emitResponse(out, m, mdata[m].mid.v, 200, Value("result"))
       ELSE UNCHANGED <<closed, out>>
  /\ UNCHANGED <<lifeVars, sock, pending, pc, mconn, mdata, outcome, cancelled,
                 logged, uncaught, httpVars, wsVars,
                 blockVars>>

StreamCount(s) == Cardinality({i \in 1..Len(s) : s[i].kind = "stream"})

\* The route handler calls request.stream(): its onStream callback emits a
\* StreamChunk.
requestStream(m) ==
  /\ HasContext(m)
  /\ StreamCount(out[m]) < MaxStream
  /\ IF RequestOpen(m)
       THEN out' = emitStream(out, m, mdata[m].mid.v, Chunk(StreamCount(out[m]) + 1))
       ELSE UNCHANGED out
  /\ UNCHANGED <<lifeVars, sock, pending, pc, mconn, mdata, closed, outcome,
                 cancelled, logged, uncaught, httpVars, wsVars,
                 blockVars>>

\* router.route returns: onMessage resolves.
routeReturns(m) ==
  /\ pc[m] = "routing"
  /\ pc' = [pc EXCEPT ![m] = "done"]
  /\ outcome' = [outcome EXCEPT ![m] = Returned]
  /\ UNCHANGED <<lifeVars, sock, pending, mconn, mdata, closed, out, cancelled,
                 logged, uncaught, httpVars, wsVars,
                 blockVars>>

\* What the message handler of the server does with a rejected onMessage:
\* .catch((err) => this.logger.error(err)).
CatchAndLog(m) == logged' = logged \cup {m} /\ UNCHANGED uncaught

\* router.route throws e: a ResponseError is answered by emitResponse, any
\* other error is thrown again and onMessage rejects.
routeThrows(m, e) ==
  /\ pc[m] = "routing"
  /\ pc' = [pc EXCEPT ![m] = "done"]
  /\ outcome' = [outcome EXCEPT ![m] = e]
  /\ IF e.kind = "ResponseError"
       THEN /\ out' = emitResponse(out, m, mdata[m].mid.v, e.status,
                                   renderError(e, "route error"))
            /\ UNCHANGED <<logged, uncaught>>
       ELSE /\ CatchAndLog(m)
            /\ UNCHANGED out
  /\ UNCHANGED <<lifeVars, sock, pending, mconn, mdata, closed, cancelled, httpVars, wsVars,
                 blockVars>>


\* ------------------------------------------------------------ HTTP listener
\* The Request of HTTP request h exists (new Request was reached).
HasHttpContext(h) == hpc[h] \in {"routing", "done"}

\* response.writeHead(status) and response.write(JSON.stringify({status, data}))
HttpWrite(status, data) == [head |-> status, body |-> Envelope(status, data)]

\* The request handler of the HTTP server up to its first await: the URL and
\* the query parameters; a POST or PUT awaits the body, any other method
\* goes on to new Request and the await of router.route.
httpRequest(h, method) ==
  /\ httpListening
  /\ hpc[h] = "unused"
  /\ \A k \in Https : k < h => hpc[k] # "unused"
  /\ hres' = [hres EXCEPT ![h] = "open"]
  /\ hpc' = [hpc EXCEPT ![h] = IF method \in {"POST", "PUT"} THEN "reading" ELSE "routing"]
  /\ UNCHANGED <<lifeVars, sock, pending, msgVars, wsVars, blockVars, uncaught,
                 hclosed, hwrites, houtcome>>

\* The body has been read: JSON.parse gives the parameters, or throws (a
\* read error throws as well) and the handler's promise rejects.
httpBody(h, ok) ==
  /\ hpc[h] = "reading"
  /\ IF ok
       THEN /\ hpc' = [hpc EXCEPT ![h] = "routing"]
            /\ UNCHANGED uncaught
       ELSE /\ hpc' = [hpc EXCEPT ![h] = "faulted"]
            /\ uncaught' = uncaught \cup {<<"http", h>>}
  /\ UNCHANGED <<lifeVars, sock, pending, msgVars, wsVars, blockVars, hclosed, hres,
                 hwrites, houtcome>>

\* Request: a closed request calls neither of its callbacks.
HttpRequestOpen(h) == ~hclosed[h]

\* The route handler calls request.end(): writeHead(status) and the
\* envelope {status, data}.
httpRequestEnd(h) ==
  /\ HasHttpContext(h)
  /\ IF HttpRequestOpen(h)
       THEN /\ hclosed' = [hclosed EXCEPT ![h] = TRUE]
            /\ hwrites' = [hwrites EXCEPT ![h] = Append(@, HttpWrite(200, Value("result")))]
       ELSE UNCHANGED <<hclosed, hwrites>>
  /\ UNCHANGED <<lifeVars, sock, pending, msgVars, wsVars, blockVars, uncaught, hpc,
                 hres, houtcome>>

\* The route handler calls request.stream(): writeHead(200) and
\* {status: 200, data}.
httpRequestStream(h) ==
  /\ HasHttpContext(h)
  /\ Len(hwrites[h]) < MaxStream
  /\ IF HttpRequestOpen(h)
       THEN hwrites' = [hwrites EXCEPT ![h] =
                          Append(@, HttpWrite(200, Chunk(Len(hwrites[h]) + 1)))]
       ELSE UNCHANGED hwrites
  /\ UNCHANGED <<lifeVars, sock, pending, msgVars, wsVars, blockVars, uncaught, hpc,
                 hclosed, hres, houtcome>>

\* The finally block: response.end() and ipcRequest.close().
httpFinally(h) ==
  /\ hres' = [hres EXCEPT ![h] = "ended"]
  /\ hclosed' = [hclosed EXCEPT ![h] = TRUE]

\* router.route returns.
httpRouteReturns(h) ==
  /\ hpc[h] = "routing"
  /\ hpc' = [hpc EXCEPT ![h] = "done"]
  /\ houtcome' = [houtcome EXCEPT ![h] = Returned]
  /\ httpFinally(h)
  /\ UNCHANGED <<lifeVars, sock, pending, msgVars, wsVars, blockVars, uncaught, hwrites>>

\* router.route throws e: a ResponseError is written to the response, any
\* other error is thrown again.
httpRouteThrows(h, e) ==
  /\ hpc[h] = "routing"
  /\ hpc' = [hpc EXCEPT ![h] = "done"]
  /\ houtcome' = [houtcome EXCEPT ![h] = e]
  /\ IF e.kind = "ResponseError"
       THEN /\ hwrites' = [hwrites EXCEPT ![h] =
                             Append(@, HttpWrite(e.status, renderError(e, "route error")))]
            /\ UNCHANGED uncaught
       ELSE /\ uncaught' = uncaught \cup {<<"http", h>>}
            /\ UNCHANGED hwrites
  /\ httpFinally(h)
  /\ UNCHANGED <<lifeVars, sock, pending, msgVars, wsVars, blockVars>>

\* ------------------------------------------------------- WebSocket listener
\* route.includes("Stream") in place of route.endsWith("Stream").
EndsWithAnywhere(r, suffix) ==
  \E i \in 1..Len(r) : SubSeq(r, i, i + Len(suffix) - 1) = suffix

\* route.endsWith(suffix)
EndsWith(r, suffix) ==
  /\ Len(r) >= Len(suffix)
  /\ SubSeq(r, Len(r) - Len(suffix) + 1, Len(r)) = suffix

\* The Request of WebSocket w exists (new Request was reached).
HasWsContext(w) == wpc[w] \in {"routing", "done"}

\* wsClient.send(text): a socket that is closing or closed sends nothing.
wsSend(w, text) == IF wsk[w] = "open" THEN Append(wsent[w], text) ELSE wsent[w]

\* wsClient.close(): the closing handshake begins.
wsClientClose(w) == IF wsk[w] = "open" THEN "closing" ELSE wsk[w]

\* The connection handler of the WebSocket server up to its await: a route
\* without the Stream suffix is closed at once, any other gets its Request,
\* the close listener, and the await of router.route.
wsConnection(w, r) ==
  /\ wsServer /\ httpListening
  /\ wpc[w] = "unused"
  /\ \A k \in Wss : k < w => wpc[k] # "unused"
  /\ wroute' = [wroute EXCEPT ![w] = r]
  /\ IF ~EndsWith(r, StreamSuffix)
       THEN /\ wpc' = [wpc EXCEPT ![w] = "rejected"]
            /\ wsk' = [wsk EXCEPT ![w] = "closing"]
       ELSE /\ wpc' = [wpc EXCEPT ![w] = "routing"]
            /\ wsk' = [wsk EXCEPT ![w] = "open"]
  /\ UNCHANGED <<lifeVars, sock, pending, msgVars, uncaught, httpVars, wclosed,
                 wsent, woutcome, blockVars>>

\* Request: a closed request calls neither of its callbacks.
WsRequestOpen(w) == ~wclosed[w]

\* The route handler calls request.end(): the envelope {status, data} is sent.
wsRequestEnd(w) ==
  /\ HasWsContext(w)
  /\ IF WsRequestOpen(w)
       THEN /\ wclosed' = [wclosed EXCEPT ![w] = TRUE]
            /\ wsent' = [wsent EXCEPT ![w] = wsSend(w, Envelope(200, Value("result")))]
       ELSE UNCHANGED <<wclosed, wsent>>
  /\ UNCHANGED <<lifeVars, sock, pending, msgVars, uncaught, httpVars, wpc, wroute,
                 wsk, woutcome, blockVars>>

WsChunkCount(s) == Cardinality({i \in 1..Len(s) : ~s[i].envelope})

\* The route handler calls request.stream(): the chunk itself is sent.
wsRequestStream(w) ==
  /\ HasWsContext(w)
  /\ WsChunkCount(wsent[w]) < MaxStream
  /\ IF WsRequestOpen(w)
       THEN wsent' = [wsent EXCEPT ![w] =
                        wsSend(w, Raw(Chunk(WsChunkCount(wsent[w]) + 1)))]
       ELSE UNCHANGED wsent
  /\ UNCHANGED <<lifeVars, sock, pending, msgVars, uncaught, httpVars, wpc, wroute,
                 wsk, wclosed, woutcome, blockVars>>

\* The close event of the socket: ipcRequest.close().
wsClose(w) ==
  /\ wsk[w] \in {"open", "closing"}
  /\ wsk' = [wsk EXCEPT ![w] = "closed"]
  /\ wclosed' = [wclosed EXCEPT ![w] = @ \/ HasWsContext(w)]
  /\ UNCHANGED <<lifeVars, sock, pending, msgVars, uncaught, httpVars, wpc, wroute,
                 wsent, woutcome, blockVars>>

\* router.route returns.
wsRouteReturns(w) ==
  /\ wpc[w] = "routing"
  /\ wpc' = [wpc EXCEPT ![w] = "done"]
  /\ woutcome' = [woutcome EXCEPT ![w] = Returned]
  /\ UNCHANGED <<lifeVars, sock, pending, msgVars, uncaught, httpVars, wroute, wsk,
                 wclosed, wsent, blockVars>>

\* ipcRequest.end(this.renderError(error)): the status left to its default.
wsFailureStatusDefault(e) == 200

\* ipcRequest.end(this.renderError(error), error.status)
wsFailureStatus(e) == e.status

\* router.route throws e: a ResponseError ends the request with the rendered
\* error and the socket is closed; any other error closes the socket and is
\* thrown again.
wsRouteThrows(w, e) ==
  /\ wpc[w] = "routing"
  /\ wpc' = [wpc EXCEPT ![w] = "done"]
  /\ woutcome' = [woutcome EXCEPT ![w] = e]
  /\ wsk' = [wsk EXCEPT ![w] = wsClientClose(w)]
  /\ IF e.kind = "ResponseError"
       THEN /\ IF WsRequestOpen(w)
                 THEN /\ wclosed' = [wclosed EXCEPT ![w] = TRUE]
                      /\ wsent' = [wsent EXCEPT ![w] =
                                     wsSend(w, Envelope(wsFailureStatus(e),
                                                        renderError(e, "route error")))]
                 ELSE UNCHANGED <<wclosed, wsent>>
            /\ UNCHANGED uncaught
       ELSE /\ uncaught' = uncaught \cup {<<"ws", w>>}
            /\ UNCHANGED <<wclosed, wsent>>
  /\ UNCHANGED <<lifeVars, sock, pending, msgVars, httpVars, wroute, blockVars>>

\* ------------------------------------------------------- block chunk codec
\* The size of a varint, for values below 2^16: one byte below 0xfd, else
\* the prefix 0xfd and two bytes.
sizeVarintOneByte(n) == 1

sizeVarint(n) == IF n < 253 THEN 1 ELSE 3

\* The bytes of a varint, the two-byte form little-endian.
writeVarint(n) == IF n < 253 THEN <<n>> ELSE <<253, n % 256, n \div 256>>

\* The varint at offset off of buf: its value and its size.
readVarint(buf, off) ==
  IF buf[off] < 253
    THEN [value |-> buf[off], size |-> 1]
    ELSE [value |-> buf[off + 1] + 256 * buf[off + 2], size |-> 3]

\* The size of the length-prefixed transactions txs[from..to], summed by
\* halves.
RECURSIVE sizeTransactions(_, _, _)
sizeTransactions(txs, from, to) ==
  IF from > to THEN 0
  ELSE IF from = to THEN sizeVarint(Len(txs[from])) + Len(txs[from])
  ELSE LET mid == (from + to) \div 2
       IN  sizeTransactions(txs, from, mid) + sizeTransactions(txs, mid + 1, to)

\* sizeOf: header size + varint(txCount) + the length-prefixed transactions.
getBlockSize(b) ==
  Len(b.header) + sizeVarint(Len(b.transactions)) +
  sizeTransactions(b.transactions, 1, Len(b.transactions))

\* The length-prefixed transactions txs[from..to], in order, written by
\* halves.
RECURSIVE writeTransactions(_, _, _)
writeTransactions(txs, from, to) ==
  IF from > to THEN <<>>
  ELSE IF from = to THEN writeVarint(Len(txs[from])) \o txs[from]
  ELSE LET mid == (from + to) \div 2
       IN  writeTransactions(txs, from, mid) \o writeTransactions(txs, mid + 1, to)

\* [header bytes][varint transaction count][varint length, bytes]*
writeBlock(b) ==
  b.header \o writeVarint(Len(b.transactions)) \o
  writeTransactions(b.transactions, 1, Len(b.transactions))

\* n length-prefixed transactions from offset off of buf, and the offset
\* after them: the first half, then the second half from where the first
\* ended.
RECURSIVE readTransactions(_, _, _)
readTransactions(buf, off, n) ==
  IF n = 0 THEN [transactions |-> <<>>, offset |-> off]
  ELSE IF n = 1
    THEN LET len == readVarint(buf, off)
             from == off + len.size
         IN  [transactions |-> <<SubSeq(buf, from, from + len.value - 1)>>,
              offset |-> from + len.value]
  ELSE LET first == readTransactions(buf, off, n \div 2)
           rest == readTransactions(buf, first.offset, n - n \div 2)
       IN  [transactions |-> first.transactions \o rest.transactions,
            offset |-> rest.offset]

\* The block at the start of buf, and the number of bytes read.
readBlock(buf) ==
  LET count == readVarint(buf, HeaderSize + 1)
      txs == readTransactions(buf, HeaderSize + 1 + count.size, count.value)
  IN  [block |-> [header |-> SubSeq(buf, 1, HeaderSize), transactions |-> txs.transactions],
       consumed |-> txs.offset - 1]

\* bufio.write(getBlockSize(block)), then writeBlock(bw, block).render().
writeChunk(b) ==
  /\ bpc = "idle"
  /\ bpc' = "written"
  /\ block' = b
  /\ declared' = getBlockSize(b)
  /\ buffer' = writeBlock(b)
  /\ UNCHANGED <<lifeVars, sock, pending, msgVars, uncaught, httpVars, wsVars,
                 decoded, consumed>>

\* readBlock(bufio.read(buffer, true))
readChunk ==
  /\ bpc = "written"
  /\ bpc' = "read"
  /\ decoded' = readBlock(buffer).block
  /\ consumed' = readBlock(buffer).consumed
  /\ UNCHANGED <<lifeVars, sock, pending, msgVars, uncaught, httpVars, wsVars,
                 block, declared, buffer>>

\* ----------------------------------------------------------- specification
NextLife ==
  \/ attach
  \/ start
  \/ startServe
  \/ onServed
  \/ \E src \in {"ipc", "http"} : onError(src)
  \/ stop

NextSockets ==
  \/ \E c \in Conns : onConnect(c)
  \/ \E c \in Conns : onDisconnect(c)

NextRequests ==
  \/ \E m \in Msgs : onMessageValidated(m)
  \/ \E m \in Msgs : requestEnd(m)
  \/ \E m \in Msgs : requestStream(m)
  \/ \E m \in Msgs : routeReturns(m)
  \/ \E m \in Msgs, e \in ResponseErrors \cup {OtherError} : routeThrows(m, e)

NextHttp ==
  \/ \E h \in Https, method \in Methods : httpRequest(h, method)
  \/ \E h \in Https, ok \in BOOLEAN : httpBody(h, ok)
  \/ \E h \in Https : httpRequestEnd(h)
  \/ \E h \in Https : httpRequestStream(h)
  \/ \E h \in Https : httpRouteReturns(h)
  \/ \E h \in Https, e \in ResponseErrors \cup {OtherError} : httpRouteThrows(h, e)

NextWebSocket ==
  \/ \E w \in Wss, r \in WsRoutes : wsConnection(w, r)
  \/ \E w \in Wss : wsRequestEnd(w)
  \/ \E w \in Wss : wsRequestStream(w)
  \/ \E w \in Wss : wsClose(w)
  \/ \E w \in Wss : wsRouteReturns(w)
  \/ \E w \in Wss, e \in ResponseErrors \cup {OtherError} : wsRouteThrows(w, e)

NextBlock ==
  \/ \E b \in Blocks : writeChunk(b)
  \/ readChunk

\* The adapter with all its listeners, and the block chunk codec.
Next ==
  \/ NextLife
  \/ NextSockets
  \/ \E m \in Msgs, c \in Conns, d \in Payloads : onMessage(m, c, d)
  \/ NextRequests
  \/ NextHttp
  \/ NextWebSocket
  \/ NextBlock

Spec == Init /\ [][Next]_vars

\* The adapter in ipc mode, its clients sending well-formed requests.
InitIpc == Init /\ mode = "ipc"

NextIpc ==
  \/ attach
  \/ start /\ ~started
  \/ startServe
  \/ onServed
  \/ stop
  \/ NextSockets
  \/ \E m \in Msgs, c \in Conns, d \in Requests : onMessage(m, c, d)
  \/ NextRequests

SpecIpc == InitIpc /\ [][NextIpc]_vars

\* The messages IpcRequestSchema rejects.
MalformedPayloads == Payloads \ {d \in Payloads : IpcRequestValid(d)}

\* The adapter in ipc mode, its clients sending requests and malformed
\* messages; the adapter is not stopped.
NextMalformed ==
  \/ attach
  \/ start /\ ~started
  \/ startServe
  \/ onServed
  \/ NextSockets
  \/ \E m \in 1..NumAnyMsgs, c \in Conns, d \in MalformedPayloads \cup Requests :
       onMessage(m, c, d)
  \/ NextRequests

SpecMalformed == InitIpc /\ [][NextMalformed]_vars

\* The lifecycle of the adapter, its connections and the HTTP listener.
NextServers ==
  \/ NextLife
  \/ NextSockets
  \/ NextHttp

SpecServers == Init /\ [][NextServers]_vars

\* The adapter in tcp mode and its WebSocket listener.
InitTcp == Init /\ mode = "tcp"

NextWs ==
  \/ attach
  \/ start /\ ~started
  \/ startServe
  \/ onServed
  \/ stop
  \/ NextWebSocket

SpecWs == InitTcp /\ [][NextWs]_vars

\* The lifecycle of the adapter and its connections; a socket that stop()
\* destroyed emits its close event.
NextStop ==
  \/ NextLife
  \/ NextSockets

SpecStop ==
  /\ Init
  /\ [][NextStop]_vars
  /\ \A c \in Conns : WF_vars(sock[c] = "destroyed" /\ onDisconnect(c))

\* One block written as a chunk and read back.
SpecBlock == Init /\ [][NextBlock]_vars

\* ------------------------------------------------------------------ claims
Last(s) == s[Len(s)]

\* The requests registered for some connection.
Registered == UNION {PendingOf(c) : c \in DOMAIN pending}

\* C1: a request that reached the router gets at most one Response, and
\* nothing is emitted for it after that Response.
C1_AtMostOneTerminal ==
  \A m \in Msgs :
    HasContext(m) =>
      \A i \in 1..Len(out[m]) : out[m][i].kind = "message" => i = Len(out[m])

\* C2: the requests pending at a disconnect are closed and leave the
\* registry, and nothing is emitted for them afterwards.
C2_DisconnectCancels ==
  /\ [](\A m \in cancelled : closed[m] /\ m \notin Registered)
  /\ [][\A m \in cancelled : out'[m] = out[m]]_vars

\* A request with mid n, received on connection c, is open.
OpenRequestWithMid(c, n) ==
  \E k \in Msgs :
    /\ HasContext(k)
    /\ mconn[k] = c
    /\ mdata[k].mid.v = n
    /\ ~closed[k]

\* C3: whenever a Response or a StreamChunk is emitted, its id is the mid of
\* a request received on that connection and still open.
C3_CorrelationIntegrity ==
  [][\A m \in Msgs :
       (out'[m] # out[m] /\ Last(out'[m]).kind \in {"message", "stream"}) =>
         OpenRequestWithMid(mconn'[m], Last(out'[m]).id)]_vars

\* No request, of either listener, is open.
NoOpenContext ==
  /\ \A m \in Msgs : HasContext(m) => closed[m]
  /\ \A h \in Https : HasHttpContext(h) => hclosed[h]

\* C4: at the moment stop() resolves the meters are stopped, no listener
\* accepts, no connection is live and no request is open.
C4_StopBarrier ==
  [][(stopPc # "resolved" /\ stopPc' = "resolved") =>
       /\ ~metersRunning'
       /\ ipcState' \notin {"starting", "up"} /\ ~httpListening'
       /\ \A c \in Conns : sock'[c] \in {"none", "closed"}
       /\ NoOpenContext']_vars

\* C5: a ResponseError of the router ends the request: the Response with the
\* error's status and code is the last thing emitted, and the request is
\* closed.
C5_StructuredError ==
  \A m \in Msgs :
    outcome[m].kind = "ResponseError" =>
      /\ out[m] # <<>>
      /\ Last(out[m]) = ResponseMsg(mdata[m].mid.v, outcome[m].status,
                                    [tag |-> "error", code |-> outcome[m].code,
                                     message |-> "route error"])
      /\ closed[m]

\* C6: any other error of the router leaves the message handler uncaught.
C6_FaultPropagates ==
  \A m \in Msgs : outcome[m].kind = "Error" => <<"ipc", m>> \in uncaught

\* A message that fails the validation, as the protocol defines it.
IsMalformed(d) == ~d.obj \/ d.mid.t # "number" \/ d.type \in {"undefined", "empty"}

\* C7: a malformed message never reaches the router, gets no request, throws
\* nothing, and is answered by exactly one Response or malformedRequest event.
C7_MalformedRecovered ==
  \A m \in Msgs :
    (pc[m] # "unused" /\ IsMalformed(mdata[m])) =>
      /\ pc[m] \in {"validating", "malformed"}
      /\ m \notin Registered
      /\ m \notin logged
      /\ <<"ipc", m>> \notin uncaught
      /\ pc[m] = "validating" => out[m] = <<>>
      /\ pc[m] = "malformed" =>
           /\ Len(out[m]) = 1
           /\ \/ out[m][1].kind = "malformedRequest"
              \/ out[m][1].kind = "message" /\ out[m][1].status = 500

\* A message without a mid has been answered by the malformedRequest event.
C7_Witness ==
  \E m \in Msgs :
    /\ pc[m] = "malformed"
    /\ mdata[m].obj /\ mdata[m].mid.t = "undefined"
    /\ out[m] # <<>> /\ out[m][1].kind = "malformedRequest"

\* C8: a malformed message with a numeric id or mid is answered by a
\* Response that carries that value; the event is for messages with neither.
C8_MalformedTargeting ==
  \A m \in Msgs :
    pc[m] = "malformed" =>
      LET d == mdata[m]
          nums == {f.v : f \in {g \in {d.id, d.mid} : g.t = "number"}}
      IN  IF nums # {}
            THEN out[m][1].kind = "message" /\ out[m][1].id \in nums
            ELSE out[m][1].kind = "malformedRequest"

\* C9: an HTTP request whose handler is over has its response ended and its
\* request closed, however the handler ended.
C9_HttpCleanup ==
  \A h \in Https :
    hpc[h] \in {"done", "faulted"} => hres[h] = "ended" /\ hclosed[h]

\* C10: however often start() is called, the meters are started once, one
\* transport is created and bound, and the handlers are registered once.
C10_StartIdempotent ==
  /\ meterStarts <= 1
  /\ serversCreated <= 1
  /\ handlerRegs <= 1
  /\ Len(bindLog) <= Len(BindOrder(mode))
  /\ started <=> startCalls >= 1

\* start() has been called a second time while the first call awaits its
\* listeners.
C10_Witness == startCalls = 2 /\ startPc = "starting" /\ meterStarts = 1

\* C11: in tcp mode the TCP transport has been started (ipc.server.start)
\* by the time the HTTP listener binds (httpServer.listen).
C11_TcpBeforeHttp ==
  \A i \in 1..Len(bindLog) :
    bindLog[i] = "httpServer.listen" =>
      \E j \in 1..(i - 1) : bindLog[j] = "ipc.server.start"

\* C12: a WebSocket whose route does not end in the Stream suffix is closed
\* at once: the router is not invoked, no request is created, nothing is sent.
C12_WsRouteFilter ==
  \A w \in Wss :
    (wpc[w] # "unused" /\ (wroute[w] = <<>> \/ Last(wroute[w]) # "Stream")) =>
      /\ wpc[w] = "rejected"
      /\ wsk[w] \in {"closing", "closed"}
      /\ ~HasWsContext(w) /\ ~wclosed[w]
      /\ woutcome[w] = NoError
      /\ wsent[w] = <<>>

\* A WebSocket whose route has the suffix, but not at its end, was turned
\* away.
C12_Witness ==
  \E w \in Wss :
    wroute[w] = <<"Stream", "Info">> /\ wpc[w] = "rejected" /\ wsk[w] = "closed"

\* The error envelope the listener sends for the ResponseError e.
WsErrorEnvelope(e) ==
  Envelope(e.status, [tag |-> "error", code |-> e.code, message |-> "route error"])

\* The router has failed for WebSocket w.
WsFailed(w) == woutcome[w].kind \in {"ResponseError", "Error"}

\* C13: after a ResponseError of the router exactly one error envelope has
\* been sent, as the last message, and the socket and the request are
\* closed; after any other error nothing is sent, the socket is closed and
\* the error is uncaught; nothing is sent after either.
C13_WsFailure ==
  /\ [](\A w \in Wss :
         woutcome[w].kind = "ResponseError" =>
           /\ wsent[w] # <<>>
           /\ Last(wsent[w]) = WsErrorEnvelope(woutcome[w])
           /\ Cardinality({i \in 1..Len(wsent[w]) : wsent[w][i].envelope}) = 1
           /\ wsk[w] \in {"closing", "closed"}
           /\ wclosed[w])
  /\ [](\A w \in Wss :
         woutcome[w].kind = "Error" =>
           /\ wsk[w] \in {"closing", "closed"}
           /\ wsk[w] = "closed" => wclosed[w]
           /\ <<"ws", w>> \in uncaught)
  /\ [][\A w \in Wss :
         (WsFailed(w) \/ woutcome'[w].kind = "Error") => wsent'[w] = wsent[w]]_vars

\* C13 (amended): a ResponseError of the router, thrown while the request is
\* still open, sends its error envelope and closes the request; thrown when
\* the request is closed already it sends nothing; either way the socket is
\* closed. Any other error sends nothing, closes the socket and is uncaught.
\* Nothing is sent after a failure, and a closed socket's request is closed.
C13_WsFailureOpen ==
  /\ [][\A w \in Wss :
         (wpc[w] = "routing" /\ wpc'[w] = "done") =>
           /\ woutcome'[w].kind = "ResponseError" =>
                /\ wsent'[w] = IF wclosed[w]
                                 THEN wsent[w]
                                 ELSE Append(wsent[w], WsErrorEnvelope(woutcome'[w]))
                /\ wclosed'[w]
                /\ wsk'[w] \in {"closing", "closed"}
           /\ woutcome'[w].kind = "Error" =>
                /\ wsent'[w] = wsent[w]
                /\ wsk'[w] \in {"closing", "closed"}
                /\ <<"ws", w>> \in uncaught']_vars
  /\ [][\A w \in Wss : WsFailed(w) => wsent'[w] = wsent[w]]_vars
  /\ [](\A w \in Wss : (HasWsContext(w) /\ wsk[w] = "closed") => wclosed[w])

\* A chunk, then the error envelope of a ResponseError, then the socket
\* closed.
C13_Witness ==
  \E w \in Wss :
    /\ woutcome[w].kind = "ResponseError"
    /\ Len(wsent[w]) = 2
    /\ ~wsent[w][1].envelope
    /\ wsent[w][2] = WsErrorEnvelope(woutcome[w])
    /\ wsk[w] = "closed"

\* C14: on an HTTP response, a write made by respond carries the status and
\* the envelope {status, data}; a write made by stream carries status 200 and
\* the chunk itself, without an envelope.
C14_HttpShapes ==
  \A h \in Https :
    \A i \in 1..Len(hwrites[h]) :
      LET wr == hwrites[h][i]
      IN  IF "seq" \in DOMAIN wr.body.data
            THEN wr.head = 200 /\ wr.body = Raw(wr.body.data)
            ELSE wr.body = Envelope(wr.head, wr.body.data)

\* C15: the StreamChunks of a request are on the wire in the order of the
\* handler's stream calls, each with the mid of the request, and the Response
\* of the request comes after all of them.
C15_StreamOrder ==
  \A m \in Msgs :
    HasContext(m) =>
      \A i \in 1..Len(out[m]) :
        /\ out[m][i].kind = "stream" =>
             /\ out[m][i].id = mdata[m].mid.v
             /\ out[m][i].data.seq = StreamCount(SubSeq(out[m], 1, i))
        /\ out[m][i].kind = "message" =>
             \A j \in 1..Len(out[m]) : out[m][j].kind = "stream" => j < i

\* C16: a block written as a chunk fills exactly the getBlockSize(block)
\* bytes declared for it; reading the chunk gives back the header and every
\* transaction, byte for byte and in order, and reads exactly that many bytes.
C16_BlockRoundTrip ==
  /\ bpc # "idle" => Len(buffer) = declared
  /\ bpc = "read" => decoded = block /\ consumed = declared

\* A block of two transactions, one of them longer than a one-byte varint
\* can say, has been written and read.
C16_Witness ==
  /\ bpc = "read"
  /\ Len(block.transactions) = 2
  /\ Len(block.transactions[1]) = 0
  /\ Len(block.transactions[2]) >= 253
  /\ consumed = Len(buffer)

\* C17: once a connection is closed and none of its messages is still ahead
\* of its registration, the registry has no entry for the connection and
\* none of its requests is open.
C17_RegistrationRace ==
  \A c \in Conns :
    (sock[c] = "closed" /\ \A m \in Msgs : mconn[m] = c => pc[m] # "validating") =>
      /\ c \notin DOMAIN pending
      /\ \A m \in Msgs : (mconn[m] = c /\ HasContext(m)) => closed[m]

\* C18: the requests registered for a connection are exactly its requests
\* in flight: every registered request is open, and a request that got its
\* Response is no longer registered.
C18_RegistryInFlight ==
  \A c \in Conns :
    PendingOf(c) = {m \in Msgs : mconn[m] = c /\ HasContext(m) /\ ~closed[m]}

\* C19: a stop() that waits for connections resolves in the end, and waits
\* only for sockets it destroyed whose close event is still to come; the
\* stop() of an adapter that was never started resolves without waiting.
C19_StopTerminates ==
  /\ (stopPc = "waiting") ~> (stopPc = "resolved")
  /\ [](\A c \in stopWait : sock[c] = "destroyed")
  /\ [][(stopPc = "idle" /\ stopPc' # "idle" /\ ~started) =>
         (stopPc' = "resolved" /\ stopWait' = {})]_vars

\* stop() of a started adapter waits for a socket it destroyed.
C19_Witness ==
  /\ started
  /\ stopPc = "waiting"
  /\ \E c \in stopWait : sock[c] = "destroyed"

\* C20: this.started, once true, stays true, through stop() and through a
\* rejected start(); a call of start() made while it is true starts no
\* meter and creates and binds no listener.
C20_StartedMonotone ==
  [][started =>
       /\ started'
       /\ startCalls' # startCalls =>
            /\ meterStarts' = meterStarts /\ metersRunning' = metersRunning
            /\ serversCreated' = serversCreated /\ bindLog' = bindLog
            /\ startPc' = startPc /\ ipcState' = ipcState
            /\ httpListening' = httpListening]_vars

\* start() was rejected, stop() has resolved, start() has been called
\* again, and this.started is still true.
C20_Witness ==
  /\ started
  /\ startResult = "rejected"
  /\ stopPc = "resolved"
  /\ startCalls = 2
  /\ meterStarts = 1 /\ ~metersRunning

====
